---- MODULE Spec2Model ----
(***************************************************************************)
(* cypress-vibe-check: the LLM evaluation pipeline.                        *)
(*                                                                         *)
(*   cy.vibeCheck  ->  LLMBridgeService (cy.task)  ->                      *)
(*   evaluateScreenshotWithLLM task  ->  LLMService  ->                    *)
(*   BaseLLMProvider.evaluateScreenshot (retry loop)  ->                   *)
(*   {OpenAI,Anthropic}Provider.evaluateScreenshotInternal (one attempt)   *)
(*                                                                         *)
(* Numbers that are fractions in the program (confidence, thresholds) are  *)
(* kept in tenths: 0.8 is 8, 1.3 is 13.  Times are in milliseconds.        *)
(***************************************************************************)
EXTENDS Integers, Sequences, FiniteSets, TLC

(***************************************************************************)
(* Bounds of the exploration.                                              *)
(***************************************************************************)
\* largest per-call maxRetries a caller passes
MaxRetriesBound == 4
\* longest run of prose tokens before, and after, the body of a model reply
MaxProse == 1

(***************************************************************************)
(* JavaScript values.  An option is a record [t, v]: t is the kind of the  *)
(* value, v its number (booleans are 0 and 1).  "absent" is a key that is  *)
(* not in the object, "undefined" a key that is there with the value       *)
(* undefined: object spread copies the second and skips the first.         *)
(***************************************************************************)
Absent == [t |-> "absent", v |-> 0]
Undef == [t |-> "undefined", v |-> 0]
Num(n) == [t |-> "number", v |-> n]
Bool(b) == [t |-> "boolean", v |-> IF b THEN 1 ELSE 0]

\* ToBoolean: undefined, 0 and false are falsy
Truthy(x) == x.t \in {"number", "boolean"} /\ x.v # 0

\* a || b
OrElse(a, b) == IF Truthy(a) THEN a ELSE b

\* one key of { ...base, ...over }
SpreadKey(base, over) == IF over.t = "absent" THEN base ELSE over

\* a >= b on numbers; a comparison with undefined is false
JsGreaterEq(a, b) == a.t = "number" /\ b.t = "number" /\ a.v >= b.v

\* what structured cloning / JSON leaves of a key sent through cy.task:
\* a key whose value is undefined is dropped
TaskSerialize(x) == IF x.t = "undefined" THEN Absent ELSE x

(***************************************************************************)
(* Model replies.  The text of a reply is a sequence of tokens: braces,    *)
(* prose words, a bare JSON literal, and the members of a JSON object.     *)
(***************************************************************************)
LB == "{"
RB == "}"
ProseTokens == {LB, RB, "w"}
ConfidenceTokens == {"c0", "c5", "c9", "c13"}
VerdictTokens == {"vyes", "vno", "vmaybe", "vempty"}
ReasoningTokens == {"rok"}
OtherTokens == {"k"}
MemberTokens == ConfidenceTokens \cup VerdictTokens \cup ReasoningTokens \cup OtherTokens
\* a JSON text that is not an object: 42, null, "text"
Literal == "1"

ConfidenceOf(tok) == CASE tok = "c0" -> 0 [] tok = "c5" -> 5 [] tok = "c9" -> 9 [] tok = "c13" -> 13 [] OTHER -> 0
VerdictOf(tok) == CASE tok = "vyes" -> "yes" [] tok = "vno" -> "no" [] tok = "vmaybe" -> "maybe" [] OTHER -> ""

\* the object {} and the effect of one member on an object (a repeated key
\* keeps the last value, as JSON.parse does)
EmptyObject == [keys |-> {}, confidence |-> 0, verdict |-> "", reasoning |-> ""]
WithMember(o, tok) ==
  CASE tok \in ConfidenceTokens ->
         [o EXCEPT !.keys = @ \cup {"confidence"}, !.confidence = ConfidenceOf(tok)]
    [] tok \in VerdictTokens ->
         [o EXCEPT !.keys = @ \cup {"verdict"}, !.verdict = VerdictOf(tok)]
    [] tok \in ReasoningTokens ->
         [o EXCEPT !.keys = @ \cup {"reasoning"}, !.reasoning = "ok"]
    [] OTHER -> [o EXCEPT !.keys = @ \cup {"other"}]

RECURSIVE Members(_, _)
Members(o, toks) ==
  IF toks = <<>> THEN o ELSE Members(WithMember(o, Head(toks)), Tail(toks))

\* JSON.parse: an object, a literal, or a SyntaxError
JsonParse(text) ==
  IF text = <<Literal>>
    THEN [kind |-> "literal", obj |-> EmptyObject]
  ELSE IF /\ Len(text) >= 2
          /\ text[1] = LB
          /\ text[Len(text)] = RB
          /\ \A i \in 2..(Len(text) - 1) : text[i] \in MemberTokens
    THEN [kind |-> "object", obj |-> Members(EmptyObject, SubSeq(text, 2, Len(text) - 1))]
  ELSE [kind |-> "SyntaxError", obj |-> EmptyObject]

\* JSON.stringify of a parsed object
JsonStringify(o) ==
  <<LB>>
    \o (IF "confidence" \in o.keys
          THEN <<CHOOSE tok \in ConfidenceTokens : ConfidenceOf(tok) = o.confidence>>
          ELSE <<>>)
    \o (IF "verdict" \in o.keys
          THEN <<CHOOSE tok \in VerdictTokens : VerdictOf(tok) = o.verdict>>
          ELSE <<>>)
    \o (IF "reasoning" \in o.keys THEN <<"rok">> ELSE <<>>)
    \o (IF "other" \in o.keys THEN <<"k">> ELSE <<>>)
    \o <<RB>>

\* content.match(/(\{[\s\S]*\})/): the match starts at the first "{" that has
\* a "}" after it and, the star being greedy, ends at the last "}"
HasMatch(text) ==
  \E i, j \in 1..Len(text) : i < j /\ text[i] = LB /\ text[j] = RB
FirstOpen(text) ==
  CHOOSE i \in 1..Len(text) : text[i] = LB /\ \A h \in 1..(i - 1) : text[h] # LB
LastClose(text) ==
  CHOOSE j \in 1..Len(text) : text[j] = RB /\ \A h \in (j + 1)..Len(text) : text[h] # RB
JsonMatch(text) == SubSeq(text, FirstOpen(text), LastClose(text))

\* the try block: parse the match if there is one, else the whole content
ExtractJson(text) ==
  IF HasMatch(text) THEN JsonParse(JsonMatch(text)) ELSE JsonParse(text)

(***************************************************************************)
(* The 2xx payload of a provider.  shape "text": the first choice (OpenAI) *)
(* or the text block (Anthropic) carries the text; "empty": no choices, no *)
(* content blocks; "nontext": a choice without message content, content    *)
(* blocks none of which is text.  The text is kept as the environment      *)
(* produced it, prose, body, prose; a provider sees the concatenation.     *)
(***************************************************************************)
Payload(shape, pre, body, post) ==
  [shape |-> shape, pre |-> pre, body |-> body, post |-> post]
TextOf(payload) == payload.pre \o payload.body \o payload.post

\* responseData.choices[0].message?.content || JSON.stringify(choices[0]);
\* the stringified choice is an object with members other than confidence
OpenAIContent(payload) ==
  IF payload.shape = "empty" THEN <<>>
  ELSE IF payload.shape = "text" /\ TextOf(payload) # <<>> THEN TextOf(payload)
  ELSE <<LB, "k", RB>>

\* the text of the first block of type "text", if it has one
AnthropicContent(payload) ==
  IF payload.shape = "text" THEN TextOf(payload) ELSE <<>>

ContentOf(type, payload) ==
  IF type = "openai" THEN OpenAIContent(payload) ELSE AnthropicContent(payload)

(***************************************************************************)
(* Results (LLMResponse) and errors.                                       *)
(***************************************************************************)
NoRaw == [tag |-> "undefined", text |-> <<>>]
Reasoning(kind, raw) == [kind |-> kind, raw |-> raw]
Result(verdict, confidence, reasoning, failReason, rawResponse) ==
  [verdict |-> verdict, confidence |-> confidence, reasoning |-> reasoning,
   failReason |-> failReason, rawResponse |-> rawResponse]
NoResult == Result("", 0, Reasoning("", <<>>), "", NoRaw)

\* an error object: its message and the attempt that threw it (0: not thrown
\* by an attempt); two errors are the same object iff both agree
Error(kind, at) == [kind |-> kind, at |-> at]
NoError == Error("", 0)

Returned(r) == [kind |-> "result", result |-> r, error |-> NoError]
Thrown(e) == [kind |-> "throw", result |-> NoResult, error |-> e]
Pending == [kind |-> "none", result |-> NoResult, error |-> NoError]

\* rawResponse: options.includeRawResponse ? content : undefined  (OpenAI)
\*              options.includeRawResponse ? data : undefined     (Anthropic)
OpenAIRaw(includeRawResponse, content) ==
  IF Truthy(includeRawResponse) THEN [tag |-> "content", text |-> content] ELSE NoRaw
RawResponseOf(type, includeRawResponse, payload) ==
  IF type = "openai"
    THEN OpenAIRaw(includeRawResponse, OpenAIContent(payload))
    ELSE IF Truthy(includeRawResponse)
           THEN [tag |-> "data", text |-> TextOf(payload)]
           ELSE NoRaw

\* a parse whose SyntaxError is not caught
ResultJsonUncaught(content) ==
  LET parsed == ExtractJson(content) IN
  [kind |-> parsed.kind, fallback |-> FALSE, obj |-> parsed.obj]

\* the catch of the inner try: a reply that does not parse becomes an
\* object with confidence 0, verdict "no" and the content as reasoning
ResultJson(content) ==
  LET parsed == ExtractJson(content) IN
  IF parsed.kind = "SyntaxError"
    THEN [kind |-> "object", fallback |-> TRUE,
          obj |-> [keys |-> {"confidence", "reasoning", "verdict"},
                   confidence |-> 0, verdict |-> "no", reasoning |-> "error"]]
    ELSE [kind |-> parsed.kind, fallback |-> FALSE, obj |-> parsed.obj]

\* resultJson.reasoning || "No reasoning provided"
ReasoningOf(json, content) ==
  IF json.fallback THEN Reasoning("Error parsing response", content)
  ELSE IF "reasoning" \in json.obj.keys /\ json.obj.reasoning # ""
    THEN Reasoning("model", <<>>)
  ELSE Reasoning("No reasoning provided", <<>>)

\* resultJson.verdict || "no"
VerdictOr(o) == IF "verdict" \in o.keys /\ o.verdict # "" THEN o.verdict ELSE "no"

\* a provider that does not look for the confidence member
NormalizeReplyUnvalidated(type, includeRawResponse, payload, attempt) ==
  LET content == ContentOf(type, payload)
      json == ResultJson(content)
      raw == RawResponseOf(type, includeRawResponse, payload)
  IN IF json.kind # "object"
       THEN Thrown(Error(IF json.kind = "literal" THEN "TypeError" ELSE json.kind, attempt))
       ELSE Returned(Result(VerdictOr(json.obj), json.obj.confidence,
              ReasoningOf(json, content), "", raw))

\* evaluateScreenshotInternal from the 2xx payload on: the result it
\* returns, or the TypeError of `"confidence" in` applied to a literal
NormalizeReply(type, includeRawResponse, payload, attempt) ==
  LET content == ContentOf(type, payload)
      json == ResultJson(content)
      raw == RawResponseOf(type, includeRawResponse, payload)
  IN IF json.kind # "object"
       THEN Thrown(Error(IF json.kind = "literal" THEN "TypeError" ELSE json.kind, attempt))
     ELSE IF "confidence" \notin json.obj.keys
       THEN Returned(Result("no", 0,
              Reasoning("Invalid response format", JsonStringify(json.obj)), "", raw))
     ELSE Returned(Result(VerdictOr(json.obj), json.obj.confidence,
              ReasoningOf(json, content), "", raw))

(***************************************************************************)
(* Replies the model explores.  A reply text is prose, a body, prose.      *)
(***************************************************************************)
ProseSeqs == UNION {[1..n -> ProseTokens] : n \in 0..MaxProse}

\* the members of an object in the order confidence, verdict, reasoning
ObjectBodies ==
  {<<LB>> \o c \o v \o r \o <<RB>> :
     c \in {<<>>} \cup {<<tok>> : tok \in ConfidenceTokens},
     v \in {<<>>} \cup {<<tok>> : tok \in VerdictTokens},
     r \in {<<>>, <<"rok">>}}
Bodies == ObjectBodies \cup {<<>>, <<Literal>>}

AllReplies ==
  {Payload("text", pre, body, post) :
     pre \in ProseSeqs, body \in Bodies, post \in ProseSeqs}
    \cup {Payload("empty", <<>>, <<>>, <<>>), Payload("nontext", <<>>, <<>>, <<>>)}

\* the replies the whole pipeline is explored with
SampleReplies ==
  {Payload("text", <<>>, <<LB, "c9", "vyes", "rok", RB>>, <<>>),
   Payload("text", <<>>, <<LB, "c5", "vyes", RB>>, <<>>),
   Payload("text", <<>>, <<LB, "c9", "vno", "rok", RB>>, <<>>),
   Payload("text", <<>>, <<LB, "c13", "vyes", RB>>, <<>>),
   Payload("text", <<>>, <<LB, "c9", "vmaybe", RB>>, <<>>),
   Payload("text", <<>>, <<LB, "vyes", "rok", RB>>, <<>>),
   Payload("text", <<"w">>, <<>>, <<>>),
   Payload("text", <<>>, <<Literal>>, <<>>),
   Payload("empty", <<>>, <<>>, <<>>),
   Payload("nontext", <<>>, <<>>, <<>>)}

(***************************************************************************)
(* Configuration.                                                          *)
(***************************************************************************)
ProviderTypes == {"openai", "anthropic"}
\* names a caller may ask for; "mistral" is never registered
ProviderNames == {"", "openai", "anthropic", "mistral"}

\* the environments explored: OPENAI_API_KEY is set, ANTHROPIC_API_KEY is
\* set or not
EnvKeySets == {{"openai"}, {"openai", "anthropic"}}

\* validateConfig: x || 0.8 and x || 3
HardConfidenceThreshold == 8
HardMaxRetries == 3
\* defaultConfig: the provider default 0.6 and the evaluation defaults
ConfigProviderThreshold == 6
ConfigConfidenceThreshold == 8
ConfigMaxRetries == 2
\* the backoff unit, in ms
BackoffBase == 1000

\* BaseLLMProvider.validateConfig on the config createLLMProvider hands it:
\* the key is the explicit one or the one of the environment variable
ValidateConfig(raw, envHasKey) ==
  [apiKey |-> raw.apiKey \/ envHasKey,
   defaultConfidenceThreshold |->
     OrElse(raw.defaultConfidenceThreshold, Num(HardConfidenceThreshold)),
   defaultMaxRetries |-> OrElse(raw.defaultMaxRetries, Num(HardMaxRetries))]

\* defaultConfig.providers[name].config
DefaultProviderConfig(envHasKey) ==
  [apiKey |-> envHasKey,
   defaultConfidenceThreshold |-> Num(ConfigProviderThreshold),
   defaultMaxRetries |-> Absent]

\* loadConfig() with no Cypress "vibe" settings: a VibeConfig has a
\* defaultProvider and an evaluation object; the keys provider,
\* confidenceThreshold, includeRawResponse and maxRetries are not keys of
\* the config object itself, so they start absent
LoadConfig ==
  [defaultProvider |-> "openai",
   evaluation |-> [confidenceThreshold |-> Num(ConfigConfidenceThreshold),
                   includeRawResponse |-> Bool(FALSE),
                   maxRetries |-> Num(ConfigMaxRetries)],
   provider |-> "",
   confidenceThreshold |-> Absent,
   includeRawResponse |-> Absent,
   maxRetries |-> Absent]

\* the options of a call
Options(threshold, raw, retries) ==
  [confidenceThreshold |-> threshold, includeRawResponse |-> raw, maxRetries |-> retries]
NoOptions == Options(Absent, Absent, Absent)

ThresholdOptions == {Absent, Undef, Num(0), Num(9)}
RawOptions == {Absent, Bool(TRUE), Bool(FALSE)}
RetryOptions == {Absent, Undef} \cup {Num(n) : n \in (-1)..MaxRetriesBound}
CallOptions ==
  {Options(t, r, m) : t \in ThresholdOptions, r \in {Absent, Bool(TRUE)}, m \in RetryOptions}
\* the provider does not read the threshold: the direct callers explored
\* pass one or none
ServiceOptions == {o \in CallOptions : o.confidenceThreshold \in {Absent, Num(9)}}

\* { ...base, ...over } on option records
Spread(base, over) ==
  [k \in DOMAIN base |-> SpreadKey(base[k], over[k])]

\* mergedOptions.maxRetries || 1
RetryLimit(options) == OrElse(options.maxRetries, Num(1)).v

RECURSIVE Pow2(_)
Pow2(n) == IF n <= 0 THEN 1 ELSE 2 * Pow2(n - 1)
\* a delay of 1000 * Math.pow(2, attempt)
BackoffDelayFromTwo(attempt) == BackoffBase * Pow2(attempt)

\* 1000 * Math.pow(2, attempt - 1)
BackoffDelay(attempt) == BackoffBase * Pow2(attempt - 1)

\* a gate that wants the confidence above the threshold
GatePassesStrict(result, threshold) ==
  /\ result.verdict = "yes"
  /\ threshold.t = "number"
  /\ result.confidence > threshold.v

\* the test of the decision gate
GatePasses(result, threshold) ==
  result.verdict = "yes" /\ JsGreaterEq(Num(result.confidence), threshold)

(***************************************************************************)
(* State.                                                                  *)
(***************************************************************************)
VARIABLES
  envKeys,                \* provider types whose API key is in process.env
  providers,              \* LLMService.providers: name -> validated config
  defaultProvider,        \* LLMService.defaultProvider, "" for null
  llmServiceInitialized,  \* plugin.ts
  runtimeConfig,          \* screenshot-commands.ts, browser side
  registryLog,            \* the registrations made: first name, last makeDefault name
  lastOp,                 \* the last call of a registry method and how it ended
  cypressVibe,            \* Cypress.env("vibe") of the plugin process, if it has a Cypress global
  taskLog,                \* whether a task has resolved a provider, and a registration came later
  givenConfigs,           \* the config each registered provider was constructed from
  defaultConfig,          \* the exported defaultConfig object and the objects it refers to
  loaded,                 \* what the last calls of loadConfig returned, as it was then
  pc,                     \* where the evaluation under way stands
  request,                \* what the caller passed
  vcOptions,              \* mergedOptions of vibeCheck
  prov,                   \* the name of the provider the service resolved
  mergedOptions,          \* mergedOptions of BaseLLMProvider.evaluateScreenshot
  attempt,                \* the loop variable
  lastError,              \* the last error the loop caught
  caught,                 \* the error in the catch clause
  reply,                  \* responseData / data of the last 2xx response
  outcome,                \* how provider.evaluateScreenshot, or the service, settled
  taskResult,             \* what the evaluateScreenshotWithLLM task resolved with
  check,                  \* "passed", "failed": how vibeCheck ended
  subject,                \* the element vibeCheck was chained on
  yielded,                \* what vibeCheck yields to the next command
  calls,                  \* invocations of evaluateScreenshotInternal
  requests,               \* HTTP requests sent
  inflight,               \* HTTP requests not yet answered
  waits,                  \* the backoff timers set: attempt they follow, delay
  attemptLog              \* how each invocation of evaluateScreenshotInternal ended

registryVars == <<envKeys, providers, defaultProvider, llmServiceInitialized, runtimeConfig,
                  registryLog, lastOp, cypressVibe, taskLog, givenConfigs, defaultConfig, loaded>>
loopVars == <<mergedOptions, attempt, lastError, caught, reply, calls, requests, inflight, waits, attemptLog>>
callVars == <<request, vcOptions, prov, outcome, taskResult, check, subject, yielded>>
vars == <<envKeys, providers, defaultProvider, llmServiceInitialized, runtimeConfig,
          registryLog, lastOp, cypressVibe, taskLog, givenConfigs, defaultConfig, loaded,
          pc, request, vcOptions, prov, mergedOptions, attempt, lastError, caught,
          reply, outcome, taskResult, check, subject, yielded, calls, requests,
          inflight, waits, attemptLog>>

Request(entry, options, providerName, fileExists, isBrowser) ==
  [entry |-> entry, options |-> options, providerName |-> providerName,
   fileExists |-> fileExists, isBrowser |-> isBrowser]
NoRequest == Request("", NoOptions, "", FALSE, FALSE)
\* the elements a test chains vibeCheck on; "" is an empty subject
Subjects == {"email", "button"}
NoSubject == ""
\* the registrations so far: the first name registered and the name of the
\* last registration that asked to be the default
NoLog == [first |-> "", lastDefault |-> "", setDefault |-> FALSE]
LogRegister(log, name, makeDefault) ==
  [log EXCEPT !.first = IF @ = "" THEN name ELSE @,
              !.lastDefault = IF makeDefault THEN name ELSE @]
RegistryOp(op, name, error) == [op |-> op, name |-> name, error |-> error]
NoOp == RegistryOp("", "", "")
NoPayload == Payload("", <<>>, <<>>, <<>>)
\* Cypress.env("vibe") as loadConfig reads it: the threshold and retry
\* settings and the types of the providers it adds
Vibe(threshold, retries, added) ==
  [defaultConfidenceThreshold |-> threshold, maxRetries |-> retries, providers |-> added]
\* no Cypress global, or no "vibe" settings
NoVibe == Vibe(Absent, Absent, <<>>)
NoTaskLog == [started |-> FALSE, late |-> FALSE]
\* the config a provider registered under a name was constructed from
Given(configs, name, config) ==
  [n \in DOMAIN configs \cup {name} |-> IF n = name THEN config ELSE configs[n]]
\* defaultConfig as the module defines it
DefaultConfig ==
  [defaultProvider |-> LoadConfig.defaultProvider,
   providers |-> [name \in ProviderTypes |-> name],
   evaluation |-> LoadConfig.evaluation]
\* vibeCheck has not merged any options
NoVibeOptions ==
  [options |-> NoOptions, provider |-> "", callSite |-> NoOptions, callSiteProvider |-> ""]

\* no evaluation under way
Idle ==
  /\ pc = "idle"
  /\ request = NoRequest
  /\ vcOptions = NoVibeOptions
  /\ prov = ""
  /\ mergedOptions = NoOptions
  /\ attempt = 0
  /\ lastError = NoError
  /\ caught = NoError
  /\ reply = NoPayload
  /\ outcome = Pending
  /\ taskResult = NoResult
  /\ check = ""
  /\ subject = NoSubject
  /\ yielded = NoSubject
  /\ calls = 0
  /\ requests = 0
  /\ inflight = 0
  /\ waits = <<>>
  /\ attemptLog = <<>>

\* the modules are loaded and registerVibeCommands has run: the registry is
\* empty, the runtime config is loadConfig()
Init ==
  /\ envKeys \in EnvKeySets
  /\ providers = <<>>
  /\ defaultProvider = ""
  /\ llmServiceInitialized = FALSE
  /\ runtimeConfig = LoadConfig
  /\ registryLog = NoLog
  /\ lastOp = NoOp
  /\ cypressVibe = NoVibe
  /\ taskLog = NoTaskLog
  /\ givenConfigs = <<>>
  /\ defaultConfig = DefaultConfig
  /\ loaded = <<>>
  /\ Idle

(***************************************************************************)
(* cy.vibeCheck and the bridge.                                            *)
(***************************************************************************)
\* cy.configureVibes(options): Object.assign(runtimeConfig, options) copies
\* the keys of options onto the config object; it yields null
ConfigureVibes(options, provider) ==
  /\ pc = "idle"
  /\ runtimeConfig' =
       [runtimeConfig EXCEPT
          !.confidenceThreshold = SpreadKey(@, options.confidenceThreshold),
          !.includeRawResponse = SpreadKey(@, options.includeRawResponse),
          !.maxRetries = SpreadKey(@, options.maxRetries),
          !.provider = IF provider # "" THEN provider ELSE @]
  /\ UNCHANGED <<envKeys, cypressVibe, defaultConfig, loaded, taskLog, givenConfigs, providers,
                 defaultProvider, llmServiceInitialized, registryLog, lastOp, pc>>
  /\ UNCHANGED callVars
  /\ UNCHANGED loopVars

\* the subject is empty: "No element found for vibeCheck"
VibeCheckNoSubject ==
  /\ pc = "idle"
  /\ pc' = "done"
  /\ check' = "failed"
  /\ request' = Request("vibeCheck", NoOptions, "", FALSE, TRUE)
  /\ subject' = NoSubject
  /\ UNCHANGED <<vcOptions, prov, outcome, taskResult, yielded>>
  /\ UNCHANGED loopVars
  /\ UNCHANGED registryVars

\* a vibeCheck that merges the options of the call into the runtime config
\* (Object.assign(runtimeConfig.evaluation, options)) and reads them there
VibeCheckAssigns(element, options, provider, fileExists) ==
  /\ pc = "idle"
  /\ subject' = element
  /\ LET merged == Spread(runtimeConfig.evaluation, options)
         name == IF provider = "" THEN runtimeConfig.defaultProvider ELSE provider
     IN /\ vcOptions' = [options |-> merged, provider |-> name,
                        callSite |-> options, callSiteProvider |-> provider]
        /\ request' = Request("vibeCheck",
                              [k \in DOMAIN merged |-> TaskSerialize(merged[k])],
                              name, fileExists, FALSE)
        /\ runtimeConfig' = [runtimeConfig EXCEPT !.evaluation = merged,
                                                  !.defaultProvider = name]
  /\ pc' = "task"
  /\ UNCHANGED <<prov, outcome, taskResult, check, yielded>>
  /\ UNCHANGED loopVars
  /\ UNCHANGED <<envKeys, cypressVibe, defaultConfig, loaded, taskLog, givenConfigs, providers,
                 defaultProvider, llmServiceInitialized, registryLog, lastOp>>

\* the options are merged over the runtime config, the screenshot is taken
\* and the bridge sends the task its arguments
VibeCheck(element, options, provider, fileExists) ==
  /\ pc = "idle"
  /\ subject' = element
  /\ LET merged == Spread(runtimeConfig.evaluation, options)
         name == IF provider = "" THEN runtimeConfig.defaultProvider ELSE provider
     IN /\ vcOptions' = [options |-> merged, provider |-> name,
                        callSite |-> options, callSiteProvider |-> provider]
        /\ request' = Request("vibeCheck",
                              [k \in DOMAIN merged |-> TaskSerialize(merged[k])],
                              name, fileExists, FALSE)
  /\ pc' = "task"
  /\ UNCHANGED <<prov, outcome, taskResult, check, yielded>>
  /\ UNCHANGED loopVars
  /\ UNCHANGED registryVars

(***************************************************************************)
(* The evaluateScreenshotWithLLM task (Node side).                         *)
(***************************************************************************)
\* a registerProvider that makes every registration the default
RegisterProviderLatest(reg, name, config, makeDefault) ==
  [providers |-> [n \in DOMAIN reg.providers \cup {name} |->
                    IF n = name THEN config ELSE reg.providers[n]],
   defaultProvider |-> name]

\* registerProvider on a registry [providers, defaultProvider]
RegisterProvider(reg, name, config, makeDefault) ==
  [providers |-> [n \in DOMAIN reg.providers \cup {name} |->
                    IF n = name THEN config ELSE reg.providers[n]],
   defaultProvider |-> IF makeDefault \/ reg.defaultProvider = ""
                         THEN name ELSE reg.defaultProvider]

\* a provider instance: its class and its validated config
Provider(type, config) ==
  [type |-> type, apiKey |-> config.apiKey,
   defaultConfidenceThreshold |-> config.defaultConfidenceThreshold,
   defaultMaxRetries |-> config.defaultMaxRetries]

\* createLLMProvider(type, config): the key of the environment variable of
\* the type stands in for a key the config does not have
CreateLLMProvider(type, config) ==
  Provider(type, ValidateConfig(config, type \in envKeys))

\* initializeLLMService: registerProvider for each provider of loadConfig(),
\* in the order of Object.entries, the default being the one the config names
InitializedRegistry ==
  LET reg0 == [providers |-> providers, defaultProvider |-> defaultProvider]
      reg1 == RegisterProvider(reg0, "openai",
                CreateLLMProvider("openai", DefaultProviderConfig("openai" \in envKeys)),
                "openai" = LoadConfig.defaultProvider)
  IN RegisterProvider(reg1, "anthropic",
       CreateLLMProvider("anthropic", DefaultProviderConfig("anthropic" \in envKeys)),
       "anthropic" = LoadConfig.defaultProvider)

\* the registrations initializeLLMService makes
InitializedLog ==
  LogRegister(LogRegister(registryLog, "openai", "openai" = LoadConfig.defaultProvider),
              "anthropic", "anthropic" = LoadConfig.defaultProvider)

\* the configs initializeLLMService hands registerProvider
InitializedGiven ==
  Given(Given(givenConfigs, "openai", DefaultProviderConfig("openai" \in envKeys)),
        "anthropic", DefaultProviderConfig("anthropic" \in envKeys))

\* a Node program that uses the service sets it up first
InitializeLLMService ==
  /\ pc = "idle"
  /\ providers' = InitializedRegistry.providers
  /\ defaultProvider' = InitializedRegistry.defaultProvider
  /\ registryLog' = InitializedLog
  /\ givenConfigs' = InitializedGiven
  /\ UNCHANGED <<envKeys, cypressVibe, defaultConfig, loaded, taskLog, llmServiceInitialized,
                 runtimeConfig, lastOp, pc>>
  /\ UNCHANGED callVars
  /\ UNCHANGED loopVars

(***************************************************************************)
(* The registry methods, as a program that sets the service up calls them. *)
(***************************************************************************)
\* the types and configs a program registers a provider with
RegisterTypes == ProviderTypes \cup {"custom"}
RegisterConfig(hasKey) ==
  [apiKey |-> hasKey, defaultConfidenceThreshold |-> Absent, defaultMaxRetries |-> Absent]
\* the names a program registers providers under
RegistryNames == {"openai", "anthropic"}

\* a registerProvider that settles the default before it constructs the
\* provider, so that a throw of createLLMProvider leaves the default set
RegisterDefaultFirst(name, type, config, makeDefault) ==
  /\ pc = "idle"
  /\ IF type \in ProviderTypes
       THEN LET reg == RegisterProvider(
                         [providers |-> providers, defaultProvider |-> defaultProvider],
                         name, CreateLLMProvider(type, config), makeDefault)
            IN /\ providers' = reg.providers
               /\ defaultProvider' = reg.defaultProvider
               /\ registryLog' = LogRegister(registryLog, name, makeDefault)
               /\ givenConfigs' = Given(givenConfigs, name, config)
               /\ lastOp' = RegistryOp("registerProvider", name, "")
       ELSE /\ lastOp' = RegistryOp("registerProvider", name,
                                    "Custom providers should be instantiated directly")
            /\ defaultProvider' = IF makeDefault \/ defaultProvider = ""
                                     THEN name ELSE defaultProvider
            /\ UNCHANGED <<providers, registryLog, givenConfigs>>
  /\ UNCHANGED <<envKeys, cypressVibe, defaultConfig, loaded, taskLog, llmServiceInitialized,
                 runtimeConfig, pc>>
  /\ UNCHANGED callVars
  /\ UNCHANGED loopVars

\* registerProvider(name, {type, config}, makeDefault): createLLMProvider
\* throws for a type it does not construct, before anything is stored
Register(name, type, config, makeDefault) ==
  /\ pc = "idle"
  /\ IF type \in ProviderTypes
       THEN LET reg == RegisterProvider(
                         [providers |-> providers, defaultProvider |-> defaultProvider],
                         name, CreateLLMProvider(type, config), makeDefault)
            IN /\ providers' = reg.providers
               /\ defaultProvider' = reg.defaultProvider
               /\ registryLog' = LogRegister(registryLog, name, makeDefault)
               /\ givenConfigs' = Given(givenConfigs, name, config)
               /\ lastOp' = RegistryOp("registerProvider", name, "")
       ELSE /\ lastOp' = RegistryOp("registerProvider", name,
                                    "Custom providers should be instantiated directly")
            /\ UNCHANGED <<providers, defaultProvider, registryLog, givenConfigs>>
  /\ UNCHANGED <<envKeys, cypressVibe, defaultConfig, loaded, taskLog, llmServiceInitialized,
                 runtimeConfig, pc>>
  /\ UNCHANGED callVars
  /\ UNCHANGED loopVars

\* a setDefaultProvider without the has() test
SetDefaultProviderUnchecked(name) ==
  /\ pc = "idle"
  /\ defaultProvider' = name
  /\ registryLog' = [registryLog EXCEPT !.setDefault = TRUE]
  /\ lastOp' = RegistryOp("setDefaultProvider", name, "")
  /\ UNCHANGED <<envKeys, cypressVibe, defaultConfig, loaded, taskLog, givenConfigs, providers,
                 llmServiceInitialized, runtimeConfig, pc>>
  /\ UNCHANGED callVars
  /\ UNCHANGED loopVars

\* setDefaultProvider(name)
SetDefaultProvider(name) ==
  /\ pc = "idle"
  /\ IF name \notin DOMAIN providers
       THEN /\ lastOp' = RegistryOp("setDefaultProvider", name, "Provider is not registered")
            /\ UNCHANGED <<defaultProvider, registryLog>>
       ELSE /\ defaultProvider' = name
            /\ registryLog' = [registryLog EXCEPT !.setDefault = TRUE]
            /\ lastOp' = RegistryOp("setDefaultProvider", name, "")
  /\ UNCHANGED <<envKeys, cypressVibe, defaultConfig, loaded, taskLog, givenConfigs, providers,
                 llmServiceInitialized, runtimeConfig, pc>>
  /\ UNCHANGED callVars
  /\ UNCHANGED loopVars

\* initializeLLMService throws at the first provider of the config that
\* createLLMProvider does not construct: those are the entries the "vibe"
\* settings add, which Object.entries lists after openai and anthropic
InitializeThrows ==
  \E name \in DOMAIN cypressVibe.providers : cypressVibe.providers[name] \notin ProviderTypes

\* getLLMService: the flag is set when initializeLLMService returned, a
\* throw is logged and leaves it unset
GetLLMService ==
  IF llmServiceInitialized
    THEN UNCHANGED <<providers, defaultProvider, llmServiceInitialized, registryLog, givenConfigs>>
    ELSE /\ providers' = InitializedRegistry.providers
         /\ defaultProvider' = InitializedRegistry.defaultProvider
         /\ registryLog' = InitializedLog
         /\ givenConfigs' = InitializedGiven
         /\ llmServiceInitialized' = ~InitializeThrows

\* the log of the task that starts: it goes on to resolve a provider or not,
\* and initializeLLMService registers providers when the flag is unset
TaskLogged(resolves) ==
  [started |-> taskLog.started \/ resolves,
   late |-> taskLog.late \/ (taskLog.started /\ ~llmServiceInitialized)]

\* fs.existsSync fails: the task resolves with a "no" without the service
TaskFileMissing ==
  /\ pc = "task"
  /\ ~request.fileExists
  /\ GetLLMService
  /\ taskResult' = Result("no", 0, Reasoning("Screenshot does not exist", <<>>),
                          "Screenshot file not found", NoRaw)
  /\ taskLog' = TaskLogged(FALSE)
  /\ pc' = "gate"
  /\ UNCHANGED <<envKeys, cypressVibe, defaultConfig, loaded, runtimeConfig, lastOp, request,
                 vcOptions, prov, outcome, check, subject, yielded>>
  /\ UNCHANGED loopVars

TaskEvaluate ==
  /\ pc = "task"
  /\ request.fileExists
  /\ GetLLMService
  /\ taskLog' = TaskLogged(TRUE)
  /\ pc' = "resolve"
  /\ UNCHANGED <<envKeys, cypressVibe, defaultConfig, loaded, runtimeConfig, lastOp>>
  /\ UNCHANGED callVars
  /\ UNCHANGED loopVars

(***************************************************************************)
(* LLMService.evaluateScreenshot.                                          *)
(***************************************************************************)
\* a caller in Node or in the browser uses the service directly
ServiceEvaluate(options, providerName, fileExists, isBrowser) ==
  /\ pc = "idle"
  /\ request' = Request("service", options, providerName, fileExists, isBrowser)
  /\ pc' = "resolve"
  /\ UNCHANGED <<vcOptions, prov, outcome, taskResult, check, subject, yielded>>
  /\ UNCHANGED loopVars
  /\ UNCHANGED registryVars

\* a getProvider that falls back to the default for a name it does not know
ProviderToUseFallback(name) ==
  IF name # "" /\ name \in DOMAIN providers THEN name ELSE defaultProvider

\* getProvider: name || this.defaultProvider
ProviderToUse(name) == IF name # "" THEN name ELSE defaultProvider

ResolveFails ==
  /\ pc = "resolve"
  /\ LET name == ProviderToUse(request.providerName) IN
       /\ name = "" \/ name \notin DOMAIN providers
       /\ outcome' = Thrown(Error(IF name = "" THEN "No provider specified"
                                               ELSE "Provider is not registered", 0))
  /\ pc' = "settled"
  /\ UNCHANGED <<request, vcOptions, prov, taskResult, check, subject, yielded>>
  /\ UNCHANGED loopVars
  /\ UNCHANGED registryVars

\* a service that hands every evaluation to the default provider
ResolveProviderDefault ==
  /\ pc = "resolve"
  /\ defaultProvider \in DOMAIN providers
  /\ prov' = defaultProvider
  /\ pc' = "exists"
  /\ UNCHANGED <<request, vcOptions, outcome, taskResult, check, subject, yielded>>
  /\ UNCHANGED loopVars
  /\ UNCHANGED registryVars

ResolveProvider ==
  /\ pc = "resolve"
  /\ LET name == ProviderToUse(request.providerName) IN
       /\ name # ""
       /\ name \in DOMAIN providers
       /\ prov' = name
  /\ pc' = "exists"
  /\ UNCHANGED <<request, vcOptions, outcome, taskResult, check, subject, yielded>>
  /\ UNCHANGED loopVars
  /\ UNCHANGED registryVars

(***************************************************************************)
(* BaseLLMProvider.evaluateScreenshot.                                     *)
(***************************************************************************)
\* { confidenceThreshold: default, maxRetries: default, ...options }
MergedOptions(config, options) ==
  Spread(Options(config.defaultConfidenceThreshold, Absent, config.defaultMaxRetries),
         options)

\* a provider that does not check the path and starts the loop
ArtifactMissingUnchecked ==
  /\ pc = "exists"
  /\ ~request.isBrowser
  /\ ~request.fileExists
  /\ mergedOptions' = MergedOptions(providers[prov], request.options)
  /\ attempt' = 1
  /\ lastError' = NoError
  /\ pc' = "loop"
  /\ UNCHANGED <<caught, reply, calls, requests, inflight, waits, attemptLog>>
  /\ UNCHANGED callVars
  /\ UNCHANGED registryVars

\* in Node the path is checked first
ArtifactMissing ==
  /\ pc = "exists"
  /\ ~request.isBrowser
  /\ ~request.fileExists
  /\ outcome' = Thrown(Error("Screenshot does not exist", 0))
  /\ pc' = "settled"
  /\ UNCHANGED <<request, vcOptions, prov, taskResult, check, subject, yielded>>
  /\ UNCHANGED loopVars
  /\ UNCHANGED registryVars

\* a provider that completes the caller's options object with its defaults
\* (Object.assign(options, merged)) instead of building a new one
MergeOptionsInPlace ==
  /\ pc = "exists"
  /\ request.isBrowser \/ request.fileExists
  /\ mergedOptions' = MergedOptions(providers[prov], request.options)
  /\ request' = [request EXCEPT !.options = MergedOptions(providers[prov], request.options)]
  /\ attempt' = 1
  /\ lastError' = NoError
  /\ pc' = "loop"
  /\ UNCHANGED <<caught, reply, calls, requests, inflight, waits, attemptLog>>
  /\ UNCHANGED <<vcOptions, prov, outcome, taskResult, check, subject, yielded>>
  /\ UNCHANGED registryVars

\* the options are merged and the loop starts
MergeOptions ==
  /\ pc = "exists"
  /\ request.isBrowser \/ request.fileExists
  /\ mergedOptions' = MergedOptions(providers[prov], request.options)
  /\ attempt' = 1
  /\ lastError' = NoError
  /\ pc' = "loop"
  /\ UNCHANGED <<caught, reply, calls, requests, inflight, waits, attemptLog>>
  /\ UNCHANGED callVars
  /\ UNCHANGED registryVars

\* attempt <= (mergedOptions.maxRetries || 1)
LoopEnter ==
  /\ pc = "loop"
  /\ attempt <= RetryLimit(mergedOptions)
  /\ pc' = "attempt"
  /\ UNCHANGED loopVars
  /\ UNCHANGED callVars
  /\ UNCHANGED registryVars

\* the loop ends without a return or a throw: throw lastError || new Error
LoopExit ==
  /\ pc = "loop"
  /\ ~(attempt <= RetryLimit(mergedOptions))
  /\ outcome' = Thrown(IF lastError # NoError THEN lastError
                                              ELSE Error("Unknown error", 0))
  /\ pc' = "settled"
  /\ UNCHANGED <<request, vcOptions, prov, taskResult, check, subject, yielded>>
  /\ UNCHANGED loopVars
  /\ UNCHANGED registryVars

(***************************************************************************)
(* evaluateScreenshotInternal: one attempt.                                *)
(***************************************************************************)
\* an invocation that throws: the catch clause of the loop receives e
Throws(e) ==
  /\ caught' = e
  /\ attemptLog' = Append(attemptLog, "throw")
  /\ pc' = "catch"

\* readFile fails or yields nothing (always so when the file is not there)
AttemptImageFails ==
  /\ pc = "attempt"
  /\ calls' = calls + 1
  /\ reply' = NoPayload
  /\ Throws(Error("Could not read screenshot file", attempt))
  /\ UNCHANGED <<mergedOptions, attempt, lastError, requests, inflight, waits>>
  /\ UNCHANGED callVars
  /\ UNCHANGED registryVars

\* an attempt that sends the request with an empty key
AttemptNoKeySends ==
  /\ pc = "attempt"
  /\ request.fileExists
  /\ ~providers[prov].apiKey
  /\ calls' = calls + 1
  /\ requests' = requests + 1
  /\ inflight' = inflight + 1
  /\ reply' = NoPayload
  /\ pc' = "fetch"
  /\ UNCHANGED <<mergedOptions, attempt, lastError, caught, waits, attemptLog>>
  /\ UNCHANGED callVars
  /\ UNCHANGED registryVars

\* this.config.apiKey || getApiKey(...) is empty
AttemptNoKey ==
  /\ pc = "attempt"
  /\ request.fileExists
  /\ ~providers[prov].apiKey
  /\ calls' = calls + 1
  /\ reply' = NoPayload
  /\ Throws(Error("No API key provided", attempt))
  /\ UNCHANGED <<mergedOptions, attempt, lastError, requests, inflight, waits>>
  /\ UNCHANGED callVars
  /\ UNCHANGED registryVars

\* an attempt that sends its request a second time without waiting for the
\* answer to the first
AttemptFetchTwice ==
  /\ pc = "attempt"
  /\ request.fileExists
  /\ providers[prov].apiKey
  /\ calls' = calls + 1
  /\ requests' = requests + 2
  /\ inflight' = inflight + 2
  /\ reply' = NoPayload
  /\ pc' = "fetch"
  /\ UNCHANGED <<mergedOptions, attempt, lastError, caught, waits, attemptLog>>
  /\ UNCHANGED callVars
  /\ UNCHANGED registryVars

\* the request is sent
AttemptFetch ==
  /\ pc = "attempt"
  /\ request.fileExists
  /\ providers[prov].apiKey
  /\ calls' = calls + 1
  /\ requests' = requests + 1
  /\ inflight' = inflight + 1
  /\ reply' = NoPayload
  /\ pc' = "fetch"
  /\ UNCHANGED <<mergedOptions, attempt, lastError, caught, waits, attemptLog>>
  /\ UNCHANGED callVars
  /\ UNCHANGED registryVars

\* fetch rejects, the status is not 2xx, or the body is not JSON
TransportErrors == {"fetch failed", "API request failed with status", "Unexpected token"}
FetchFails(kind) ==
  /\ pc = "fetch"
  /\ inflight' = inflight - 1
  /\ Throws(Error(kind, attempt))
  /\ UNCHANGED <<mergedOptions, attempt, lastError, reply, calls, requests, waits>>
  /\ UNCHANGED callVars
  /\ UNCHANGED registryVars

\* a 2xx payload: the attempt returns the normalized result, and the loop
\* returns it at once, or the attempt throws a TypeError
InternalReply(payload) ==
  NormalizeReply(providers[prov].type, mergedOptions.includeRawResponse, payload, attempt)

\* a loop that takes a zero-confidence result for a failure and retries
FetchReplyRetriesZero(payload) ==
  /\ pc = "fetch"
  /\ inflight' = inflight - 1
  /\ reply' = payload
  /\ LET o == InternalReply(payload) IN
       IF o.kind = "result" /\ o.result.confidence > 0
         THEN /\ outcome' = o
              /\ attemptLog' = Append(attemptLog, "result")
              /\ pc' = "settled"
              /\ UNCHANGED caught
         ELSE /\ caught' = Error("zero confidence", attempt)
              /\ attemptLog' = Append(attemptLog, IF o.kind = "result" THEN "result" ELSE "throw")
              /\ pc' = "catch"
              /\ UNCHANGED outcome
  /\ UNCHANGED <<mergedOptions, attempt, lastError, calls, requests, waits>>
  /\ UNCHANGED <<request, vcOptions, prov, taskResult, check, subject, yielded>>
  /\ UNCHANGED registryVars

FetchReply(payload) ==
  /\ pc = "fetch"
  /\ inflight' = inflight - 1
  /\ reply' = payload
  /\ LET o == InternalReply(payload) IN
       IF o.kind = "result"
         THEN /\ outcome' = o
              /\ attemptLog' = Append(attemptLog, "result")
              /\ pc' = "settled"
              /\ UNCHANGED caught
         ELSE /\ Throws(o.error)
              /\ UNCHANGED outcome
  /\ UNCHANGED <<mergedOptions, attempt, lastError, calls, requests, waits>>
  /\ UNCHANGED <<request, vcOptions, prov, taskResult, check, subject, yielded>>
  /\ UNCHANGED registryVars

(***************************************************************************)
(* The catch clause of the retry loop.                                     *)
(***************************************************************************)
\* a catch clause that rethrows the first error it saw
CatchRethrowFirst ==
  /\ pc = "catch"
  /\ attempt >= RetryLimit(mergedOptions)
  /\ lastError' = caught
  /\ outcome' = Thrown(IF lastError # NoError THEN lastError ELSE caught)
  /\ pc' = "settled"
  /\ UNCHANGED <<mergedOptions, attempt, caught, reply, calls, requests, inflight, waits, attemptLog>>
  /\ UNCHANGED <<request, vcOptions, prov, taskResult, check, subject, yielded>>
  /\ UNCHANGED registryVars

\* a catch clause that turns the last error into a "no" result
CatchSwallow ==
  /\ pc = "catch"
  /\ attempt >= RetryLimit(mergedOptions)
  /\ lastError' = caught
  /\ outcome' = Returned(Result("no", 0, Reasoning(caught.kind, <<>>),
                                "Error communicating with LLM service", NoRaw))
  /\ pc' = "settled"
  /\ UNCHANGED <<mergedOptions, attempt, caught, reply, calls, requests, inflight, waits, attemptLog>>
  /\ UNCHANGED <<request, vcOptions, prov, taskResult, check, subject, yielded>>
  /\ UNCHANGED registryVars

\* attempt >= (mergedOptions.maxRetries || 1): throw error
CatchRethrow ==
  /\ pc = "catch"
  /\ attempt >= RetryLimit(mergedOptions)
  /\ lastError' = caught
  /\ outcome' = Thrown(caught)
  /\ pc' = "settled"
  /\ UNCHANGED <<mergedOptions, attempt, caught, reply, calls, requests, inflight, waits, attemptLog>>
  /\ UNCHANGED <<request, vcOptions, prov, taskResult, check, subject, yielded>>
  /\ UNCHANGED registryVars

\* a catch clause that goes to the next attempt without waiting
CatchBackoffNoWait ==
  /\ pc = "catch"
  /\ ~(attempt >= RetryLimit(mergedOptions))
  /\ lastError' = caught
  /\ attempt' = attempt + 1
  /\ pc' = "loop"
  /\ UNCHANGED <<mergedOptions, caught, reply, calls, requests, inflight, waits, attemptLog>>
  /\ UNCHANGED callVars
  /\ UNCHANGED registryVars

\* setTimeout(resolve, 1000 * 2^(attempt - 1)), then attempt++
CatchBackoff ==
  /\ pc = "catch"
  /\ ~(attempt >= RetryLimit(mergedOptions))
  /\ lastError' = caught
  /\ waits' = Append(waits, [after |-> attempt, ms |-> BackoffDelay(attempt)])
  /\ attempt' = attempt + 1
  /\ pc' = "loop"
  /\ UNCHANGED <<mergedOptions, caught, reply, calls, requests, inflight, attemptLog>>
  /\ UNCHANGED callVars
  /\ UNCHANGED registryVars

(***************************************************************************)
(* The evaluation settles.                                                 *)
(***************************************************************************)
\* the promise of LLMService.evaluateScreenshot reaches its caller
ServiceSettles ==
  /\ pc = "settled"
  /\ request.entry = "service"
  /\ pc' = "done"
  /\ UNCHANGED callVars
  /\ UNCHANGED loopVars
  /\ UNCHANGED registryVars

\* the task resolves with the result of the service
TaskResolves ==
  /\ pc = "settled"
  /\ request.entry = "vibeCheck"
  /\ outcome.kind = "result"
  /\ taskResult' = outcome.result
  /\ pc' = "gate"
  /\ UNCHANGED <<request, vcOptions, prov, outcome, check, subject, yielded>>
  /\ UNCHANGED loopVars
  /\ UNCHANGED registryVars

\* a task without the .catch: the rejection of the service is the
\* rejection of the task, cy.task fails and the test with it
TaskRejects ==
  /\ pc = "settled"
  /\ request.entry = "vibeCheck"
  /\ outcome.kind = "throw"
  /\ check' = "failed"
  /\ pc' = "done"
  /\ UNCHANGED <<request, vcOptions, prov, outcome, taskResult, subject, yielded>>
  /\ UNCHANGED loopVars
  /\ UNCHANGED registryVars

\* .catch of the task: a "no" with the message of the error as reasoning
TaskCatches ==
  /\ pc = "settled"
  /\ request.entry = "vibeCheck"
  /\ outcome.kind = "throw"
  /\ taskResult' = Result("no", 0, Reasoning(outcome.error.kind, <<>>),
                          "Error communicating with LLM service", NoRaw)
  /\ pc' = "gate"
  /\ UNCHANGED <<request, vcOptions, prov, outcome, check, subject, yielded>>
  /\ UNCHANGED loopVars
  /\ UNCHANGED registryVars

(***************************************************************************)
(* The decision gate of vibeCheck.                                         *)
(***************************************************************************)
\* a gate that yields null, as configureVibes does
GatePassYieldsNull ==
  /\ pc = "gate"
  /\ GatePasses(taskResult, vcOptions.options.confidenceThreshold)
  /\ check' = "passed"
  /\ yielded' = NoSubject
  /\ pc' = "done"
  /\ UNCHANGED <<request, vcOptions, prov, outcome, taskResult, subject>>
  /\ UNCHANGED loopVars
  /\ UNCHANGED registryVars

GatePass ==
  /\ pc = "gate"
  /\ GatePasses(taskResult, vcOptions.options.confidenceThreshold)
  /\ check' = "passed"
  /\ yielded' = subject
  /\ pc' = "done"
  /\ UNCHANGED <<request, vcOptions, prov, outcome, taskResult, subject>>
  /\ UNCHANGED loopVars
  /\ UNCHANGED registryVars

GateFail ==
  /\ pc = "gate"
  /\ ~GatePasses(taskResult, vcOptions.options.confidenceThreshold)
  /\ check' = "failed"
  /\ pc' = "done"
  /\ UNCHANGED <<request, vcOptions, prov, outcome, taskResult, subject, yielded>>
  /\ UNCHANGED loopVars
  /\ UNCHANGED registryVars

\* the next command of the test, the next call of the program
NextCall ==
  /\ pc = "done"
  /\ pc' = "idle"
  /\ request' = NoRequest
  /\ vcOptions' = NoVibeOptions
  /\ prov' = ""
  /\ mergedOptions' = NoOptions
  /\ attempt' = 0
  /\ lastError' = NoError
  /\ caught' = NoError
  /\ reply' = NoPayload
  /\ outcome' = Pending
  /\ taskResult' = NoResult
  /\ check' = ""
  /\ subject' = NoSubject
  /\ yielded' = NoSubject
  /\ calls' = 0
  /\ requests' = 0
  /\ inflight' = 0
  /\ waits' = <<>>
  /\ attemptLog' = <<>>
  /\ UNCHANGED registryVars

(***************************************************************************)
(* The pipeline.                                                           *)
(***************************************************************************)
Next ==
  \/ VibeCheckNoSubject
  \/ \E o \in CallOptions, p \in ProviderNames, f \in BOOLEAN : VibeCheck("email", o, p, f)
  \/ TaskFileMissing
  \/ TaskEvaluate
  \/ InitializeLLMService
  \/ \E o \in ServiceOptions, p \in ProviderNames, f \in BOOLEAN, b \in BOOLEAN :
       ServiceEvaluate(o, p, f, b)
  \/ ResolveFails
  \/ ResolveProvider
  \/ ArtifactMissing
  \/ MergeOptions
  \/ LoopEnter
  \/ LoopExit
  \/ AttemptImageFails
  \/ AttemptNoKey
  \/ AttemptFetch
  \/ \E k \in TransportErrors : FetchFails(k)
  \/ \E r \in SampleReplies : FetchReply(r)
  \/ CatchRethrow
  \/ CatchBackoff
  \/ ServiceSettles
  \/ TaskResolves
  \/ TaskCatches
  \/ GatePass
  \/ GateFail
  \/ NextCall

Spec == Init /\ [][Next]_vars

(***************************************************************************)
(* The replies of a provider, explored in breadth: the retry loop of a     *)
(* provider the service has resolved, with every reply of AllReplies.      *)
(***************************************************************************)
ReplyInit ==
  /\ envKeys = ProviderTypes
  /\ providers = [name \in ProviderTypes |->
                    Provider(name, ValidateConfig(DefaultProviderConfig(TRUE), TRUE))]
  /\ defaultProvider = "openai"
  /\ llmServiceInitialized = FALSE
  /\ runtimeConfig = LoadConfig
  /\ registryLog = LogRegister(LogRegister(NoLog, "openai", TRUE), "anthropic", FALSE)
  /\ lastOp = NoOp
  /\ cypressVibe = NoVibe
  /\ taskLog = NoTaskLog
  /\ givenConfigs = [name \in ProviderTypes |-> DefaultProviderConfig(TRUE)]
  /\ defaultConfig = DefaultConfig
  /\ loaded = <<>>
  /\ pc = "loop"
  /\ \E p \in ProviderTypes, raw \in RawOptions \cup {Undef} :
       /\ request = Request("service", Options(Absent, raw, Num(2)), p, TRUE, FALSE)
       /\ prov = p
       /\ mergedOptions = MergedOptions(providers[p], request.options)
  /\ vcOptions = NoVibeOptions
  /\ attempt = 1
  /\ lastError = NoError
  /\ caught = NoError
  /\ reply = NoPayload
  /\ outcome = Pending
  /\ taskResult = NoResult
  /\ check = ""
  /\ subject = NoSubject
  /\ yielded = NoSubject
  /\ calls = 0
  /\ requests = 0
  /\ inflight = 0
  /\ waits = <<>>
  /\ attemptLog = <<>>

ReplyNext ==
  \/ LoopEnter
  \/ AttemptFetch
  \/ \E r \in AllReplies : FetchReply(r)
  \/ CatchRethrow
  \/ CatchBackoff

ReplySpec == ReplyInit /\ [][ReplyNext]_vars

(***************************************************************************)
(* The registry, explored in breadth: a Node program registers providers   *)
(* under any of the names, picks defaults and evaluates existing           *)
(* screenshots through the service.  Only OPENAI_API_KEY is set.           *)
(***************************************************************************)
RegistryOptions == {Options(Absent, Absent, Num(2)), Options(Num(9), Bool(TRUE), Num(1))}

RegistryInit == Init /\ envKeys = {"openai"}

RegistryNext ==
  \/ \E n \in RegistryNames, t \in RegisterTypes, k \in BOOLEAN, d \in BOOLEAN :
       Register(n, t, RegisterConfig(k), d)
  \/ \E n \in ProviderNames \ {""} : SetDefaultProvider(n)
  \/ \E o \in RegistryOptions, p \in ProviderNames : ServiceEvaluate(o, p, TRUE, FALSE)
  \/ ResolveFails
  \/ ResolveProvider
  \/ MergeOptions
  \/ LoopEnter
  \/ AttemptNoKey
  \/ AttemptFetch
  \/ FetchFails("API request failed with status")
  \/ FetchReply(Payload("text", <<>>, <<LB, "c9", "vyes", "rok", RB>>, <<>>))
  \/ CatchRethrow
  \/ CatchBackoff
  \/ ServiceSettles
  \/ NextCall

RegistrySpec == RegistryInit /\ [][RegistryNext]_vars

(***************************************************************************)
(* The commands, explored in breadth: a test configures the vibe checks    *)
(* and chains vibeCheck on its elements.                                   *)
(***************************************************************************)
ConfigureOptions == {Options(Num(5), Bool(TRUE), Num(1)), Options(Num(9), Absent, Absent)}
CommandOptions ==
  {Options(t, Absent, m) : t \in {Absent, Undef, Num(9)}, m \in {Absent, Num(1)}}
CommandReplies ==
  {Payload("text", <<>>, <<LB, "c9", "vyes", "rok", RB>>, <<>>),
   Payload("text", <<>>, <<LB, "c5", "vyes", RB>>, <<>>),
   Payload("text", <<"w">>, <<>>, <<>>)}

CommandNext ==
  \/ \E o \in ConfigureOptions, p \in {"", "anthropic"} : ConfigureVibes(o, p)
  \/ VibeCheckNoSubject
  \/ \E e \in Subjects, o \in CommandOptions, p \in {"", "anthropic"}, f \in BOOLEAN :
       VibeCheck(e, o, p, f)
  \/ TaskFileMissing
  \/ TaskEvaluate
  \/ ResolveProvider
  \/ MergeOptions
  \/ LoopEnter
  \/ AttemptNoKey
  \/ AttemptFetch
  \/ FetchFails("fetch failed")
  \/ \E r \in CommandReplies : FetchReply(r)
  \/ CatchRethrow
  \/ CatchBackoff
  \/ TaskResolves
  \/ TaskCatches
  \/ GatePass
  \/ GateFail
  \/ NextCall

CommandSpec == Init /\ [][CommandNext]_vars

(***************************************************************************)
(* The layers of the options: a program registers a provider with defaults *)
(* of its own and uses the service, or a test runs vibeCheck.              *)
(***************************************************************************)
\* the configs the program constructs its provider from
OptionConfigs ==
  {[apiKey |-> TRUE, defaultConfidenceThreshold |-> t, defaultMaxRetries |-> m] :
     t \in {Absent, Num(0), Num(ConfigProviderThreshold)}, m \in {Absent, Num(2)}}
\* the options of the calls
LayerOptions ==
  {Options(t, Absent, m) : t \in {Absent, Undef, Num(0), Num(9)}, m \in {Absent, Undef, Num(1)}}
LayerReplies ==
  {Payload("text", <<>>, <<LB, "c5", "vyes", "rok", RB>>, <<>>)}

OptionNext ==
  \/ \E c \in OptionConfigs : Register("openai", "openai", c, FALSE)
  \/ \E o \in LayerOptions : ServiceEvaluate(o, "", TRUE, FALSE)
  \/ \E o \in LayerOptions : VibeCheck("email", o, "", TRUE)
  \/ TaskEvaluate
  \/ ResolveFails
  \/ ResolveProvider
  \/ MergeOptions
  \/ LoopEnter
  \/ AttemptFetch
  \/ FetchFails("fetch failed")
  \/ \E r \in LayerReplies : FetchReply(r)
  \/ CatchRethrow
  \/ CatchBackoff
  \/ ServiceSettles
  \/ TaskResolves
  \/ TaskCatches
  \/ GatePass
  \/ GateFail
  \/ NextCall

OptionInit == Init /\ envKeys = {"openai"}

OptionSpec == OptionInit /\ [][OptionNext]_vars

(***************************************************************************)
(* The plugin process: its tasks set the service up on first use, under    *)
(* "vibe" settings that add no provider or one createLLMProvider rejects.  *)
(***************************************************************************)
PluginVibes == {NoVibe, Vibe(Absent, Absent, [mine |-> "custom"])}

PluginInit ==
  /\ envKeys = {"openai"}
  /\ providers = <<>>
  /\ defaultProvider = ""
  /\ llmServiceInitialized = FALSE
  /\ runtimeConfig = LoadConfig
  /\ registryLog = NoLog
  /\ lastOp = NoOp
  /\ cypressVibe \in PluginVibes
  /\ taskLog = NoTaskLog
  /\ givenConfigs = <<>>
  /\ defaultConfig = DefaultConfig
  /\ loaded = <<>>
  /\ Idle

PluginNext ==
  \/ \E e \in Subjects, o \in CommandOptions, p \in {"", "anthropic", "mine"}, f \in BOOLEAN :
       VibeCheck(e, o, p, f)
  \/ TaskFileMissing
  \/ TaskEvaluate
  \/ ResolveFails
  \/ ResolveProvider
  \/ MergeOptions
  \/ LoopEnter
  \/ AttemptNoKey
  \/ AttemptFetch
  \/ FetchFails("fetch failed")
  \/ \E r \in CommandReplies : FetchReply(r)
  \/ CatchRethrow
  \/ CatchBackoff
  \/ TaskResolves
  \/ TaskCatches
  \/ GatePass
  \/ GateFail
  \/ NextCall

PluginSpec == PluginInit /\ [][PluginNext]_vars

(***************************************************************************)
(* loadConfig. The object it returns is { ...defaultConfig }: a new object *)
(* whose evaluation and providers members are the objects defaultConfig    *)
(* refers to, so what a returned config holds there now is what            *)
(* defaultConfig holds; loaded keeps what each call returned, as it was    *)
(* when it returned.                                                       *)
(***************************************************************************)
\* the "vibe" settings the calls of loadConfig find
VibeSettings ==
  {Vibe(t, m, a) : t \in {Absent, Num(5)}, m \in {Absent, Num(1)},
                   a \in {<<>>, [mine |-> "custom"]}}
\* the returned configs kept
MaxLoaded == 2

\* x !== undefined
NotUndefined(x) == x.t \notin {"absent", "undefined"}

\* the assignments of loadConfig under the settings vibe, on the objects
\* config.evaluation and config.providers
LoadedConfig(config, vibe) ==
  [defaultProvider |-> config.defaultProvider,
   providers |-> [name \in DOMAIN config.providers \cup DOMAIN vibe.providers |->
                    IF name \in DOMAIN vibe.providers THEN vibe.providers[name]
                                                      ELSE config.providers[name]],
   evaluation |->
     [config.evaluation EXCEPT
        !.confidenceThreshold = IF NotUndefined(vibe.defaultConfidenceThreshold)
                                  THEN vibe.defaultConfidenceThreshold ELSE @,
        !.maxRetries = IF NotUndefined(vibe.maxRetries) THEN vibe.maxRetries ELSE @]]

\* the last MaxLoaded of the configs returned
Keep(configs) ==
  IF Len(configs) > MaxLoaded THEN Tail(configs) ELSE configs

\* a call of loadConfig()
LoadConfigCall(vibe) ==
  /\ pc = "idle"
  /\ defaultConfig' = [defaultConfig EXCEPT
                         !.providers = LoadedConfig(defaultConfig, vibe).providers,
                         !.evaluation = LoadedConfig(defaultConfig, vibe).evaluation]
  /\ loaded' = Keep(Append(loaded, LoadedConfig(defaultConfig, vibe)))
  /\ UNCHANGED <<envKeys, cypressVibe, taskLog, givenConfigs, providers, defaultProvider,
                 llmServiceInitialized, runtimeConfig, registryLog, lastOp, pc>>
  /\ UNCHANGED callVars
  /\ UNCHANGED loopVars

\* a caller sets evaluation.maxRetries of a config loadConfig returned
WriteReturned(retries) ==
  /\ pc = "idle"
  /\ loaded # <<>>
  /\ defaultConfig' = [defaultConfig EXCEPT !.evaluation.maxRetries = retries]
  /\ UNCHANGED <<envKeys, cypressVibe, taskLog, givenConfigs, providers, defaultProvider,
                 llmServiceInitialized, runtimeConfig, registryLog, lastOp, loaded, pc>>
  /\ UNCHANGED callVars
  /\ UNCHANGED loopVars

ConfigNext ==
  \/ \E v \in VibeSettings : LoadConfigCall(v)
  \/ \E m \in {Num(4)} : WriteReturned(m)

ConfigSpec == Init /\ [][ConfigNext]_vars

(***************************************************************************)
(* Properties.                                                             *)
(***************************************************************************)
Last(seq) == seq[Len(seq)]

\* the retry loop is over
LoopOver == pc \in {"settled", "gate", "done"}

\* the gate of vibeCheck has decided
GateDecided == pc = "done" /\ request.entry = "vibeCheck" /\ vcOptions.provider # ""

\* C1: once the gate has decided on a result r with a numeric threshold t,
\* the check has passed if r.verdict = "yes" and r.confidence >= t, on the
\* raw confidence, and has failed in every other case.
C1_DecisionGate ==
  (GateDecided /\ vcOptions.options.confidenceThreshold.t = "number") =>
    /\ check \in {"passed", "failed"}
    /\ check = "passed" <=>
         /\ taskResult.verdict = "yes"
         /\ taskResult.confidence >= vcOptions.options.confidenceThreshold.v

\* a confidence above 1.0 passes, unclamped
C1_Witness ==
  /\ GateDecided
  /\ check = "passed"
  /\ taskResult.confidence = 13
  /\ vcOptions.options.confidenceThreshold = Num(9)

\* C2: when invocation k of the single-attempt logic is the first to return
\* a result, evaluateScreenshot returns that result, k is at most the
\* effective maxRetries, the k-1 invocations before it threw, and there
\* were exactly k-1 backoff waits.
C2_RetryCount ==
  /\ (attemptLog # <<>> /\ Last(attemptLog) = "result") =>
       /\ LoopOver
       /\ outcome.kind = "result"
  /\ outcome.kind = "result" =>
       /\ calls >= 1
       /\ Len(attemptLog) = calls
       /\ \A i \in 1..(calls - 1) : attemptLog[i] = "throw"
       /\ attemptLog[calls] = "result"
       /\ Len(waits) = calls - 1
       /\ mergedOptions.maxRetries.t = "number" /\ mergedOptions.maxRetries.v >= 1
            => calls <= mergedOptions.maxRetries.v
       /\ outcome = NormalizeReply(providers[prov].type, mergedOptions.includeRawResponse, reply, calls)

C2_Witness ==
  /\ outcome.kind = "result"
  /\ request.fileExists
  /\ calls = 3
  /\ Len(waits) = 2
  /\ mergedOptions.maxRetries = Num(4)

\* C3: when every invocation threw and maxRetries is a positive integer, the
\* single-attempt logic was invoked exactly maxRetries times, the error of
\* evaluateScreenshot is the one the last invocation threw, and the last
\* wait followed the invocation before the last.
C3_Exhaustion ==
  (/\ LoopOver
   /\ attemptLog # <<>>
   /\ Last(attemptLog) = "throw"
   /\ mergedOptions.maxRetries.t = "number"
   /\ mergedOptions.maxRetries.v >= 1) =>
    /\ outcome.kind = "throw"
    /\ calls = mergedOptions.maxRetries.v
    /\ Len(attemptLog) = calls
    /\ outcome.error = caught
    /\ outcome.error.at = calls
    /\ outcome.error.kind \notin {"", "Unknown error"}
    /\ Len(waits) = calls - 1
    /\ \A i \in 1..Len(waits) : waits[i].after < calls

C3_Witness ==
  /\ LoopOver
  /\ request.fileExists
  /\ outcome.kind = "throw"
  /\ calls = 3
  /\ outcome.error = Error("API request failed with status", 3)
  /\ lastError = outcome.error

\* C4: an invocation that returned a result is the last one: every earlier
\* invocation threw, and the evaluation is over with that result, also when
\* the result is a malformed reply downgraded to a zero-confidence "no".
C4_NoRetryAfterResult ==
  /\ \A i \in 1..(Len(attemptLog) - 1) : attemptLog[i] = "throw"
  /\ Len(attemptLog) \in {calls, calls - 1}
  /\ (attemptLog # <<>> /\ Last(attemptLog) = "result") =>
       /\ LoopOver
       /\ Len(attemptLog) = calls
       /\ inflight = 0
       /\ outcome.kind = "result"

\* a downgraded reply on the first of several attempts ends the evaluation
C4_Witness ==
  /\ pc = "done"
  /\ calls = 1
  /\ RetryLimit(mergedOptions) = 3
  /\ outcome.kind = "result"
  /\ outcome.result.reasoning.kind = "Error parsing response"
  /\ outcome.result.confidence = 0

\* C5: wait i follows failed attempt i and lasts 1000 * 2^(i-1) ms; an
\* attempt a is preceded by exactly a-1 waits, so none precedes attempt 1;
\* no wait follows the final attempt.
C5_BackoffSchedule ==
  /\ \A i \in 1..Len(waits) :
       /\ waits[i].after = i
       /\ waits[i].ms = 1000 * (2 ^ (i - 1))
       /\ waits[i].after < RetryLimit(mergedOptions)
  /\ pc \in {"attempt", "fetch", "catch"} => Len(waits) = attempt - 1
  /\ (LoopOver /\ attemptLog # <<>>) => Len(waits) = Len(attemptLog) - 1

C5_Witness ==
  /\ Len(waits) = 3
  /\ waits[1].ms = 1000
  /\ waits[2].ms = 2000
  /\ waits[3].ms = 4000
  /\ LoopOver

\* C6: in Node, with no file at the path, the single-attempt logic is never
\* invoked, no request is sent and no wait happens; the provider, once
\* resolved, throws the artifact error, and the task resolves with
\* "Screenshot file not found".
C6_MissingArtifact ==
  (~request.isBrowser /\ ~request.fileExists /\ request.entry # "") =>
    /\ calls = 0
    /\ requests = 0
    /\ waits = <<>>
    /\ attemptLog = <<>>
    /\ (request.entry = "service" /\ prov # "" /\ LoopOver) =>
         outcome = Thrown(Error("Screenshot does not exist", 0))
    /\ (request.entry = "vibeCheck" /\ pc \in {"gate", "done"}) =>
         /\ taskResult.failReason = "Screenshot file not found"
         /\ outcome = Pending
         /\ check # "passed"

C6_Witness ==
  /\ pc = "done"
  /\ request.entry = "service"
  /\ ~request.isBrowser
  /\ ~request.fileExists
  /\ request.options.maxRetries = Num(3)
  /\ outcome = Thrown(Error("Screenshot does not exist", 0))
  /\ calls = 0

\* the last invocation received a 2xx payload
Replied == reply.shape # ""

\* the body of the reply is an object with a confidence and a verdict
EmbeddedObject(payload) ==
  /\ payload.shape = "text"
  /\ payload.body \in ObjectBodies
  /\ Len(payload.body) >= 4
  /\ payload.body[2] \in ConfidenceTokens
  /\ payload.body[3] \in VerdictTokens \ {"vempty"}

\* C7: a reply that is prose, an object with a confidence and a verdict,
\* prose, yields a result with the verdict and the confidence of that
\* object, neither an error nor a downgraded "no".
C7_ExtractsEmbeddedJson ==
  EmbeddedObject(reply) =>
    /\ outcome.kind = "result"
    /\ outcome.result.verdict = VerdictOf(reply.body[3])
    /\ outcome.result.confidence = ConfidenceOf(reply.body[2])
    /\ outcome.result.reasoning.kind \in {"model", "No reasoning provided"}

\* neither the {...} match nor the whole content is JSON
Unparseable(content) ==
  /\ JsonParse(content).kind = "SyntaxError"
  /\ HasMatch(content) => JsonParse(JsonMatch(content)).kind = "SyntaxError"

\* C8: when the text of a 2xx reply is not JSON, the attempt returns a
\* result with verdict "no", confidence 0 and the text in its reasoning, and
\* the evaluation is over with that result.
C8_UnparseableDowngraded ==
  (Replied /\ Unparseable(ContentOf(providers[prov].type, reply))) =>
    /\ LoopOver
    /\ outcome.kind = "result"
    /\ outcome.result.verdict = "no"
    /\ outcome.result.confidence = 0
    /\ outcome.result.reasoning =
         Reasoning("Error parsing response", ContentOf(providers[prov].type, reply))
    /\ Last(attemptLog) = "result"
    /\ Len(attemptLog) = calls

C8_Witness ==
  /\ Replied
  /\ reply.pre = <<"w">>
  /\ reply.body = <<LB, "c9", "vyes", RB>>
  /\ reply.post = <<RB>>
  /\ outcome.kind = "result"
  /\ outcome.result.confidence = 0
  /\ outcome.result.reasoning.raw = <<"w", LB, "c9", "vyes", RB, RB>>
  /\ calls = 1

\* C9: when the object parsed from the reply has no confidence member, the
\* attempt returns verdict "no", confidence 0 and the reasoning "Invalid
\* response format", whatever the verdict of the object, and that result
\* passes the gate for no threshold above 0.
C9_MissingConfidence ==
  (/\ Replied
   /\ ExtractJson(ContentOf(providers[prov].type, reply)).kind = "object"
   /\ "confidence" \notin ExtractJson(ContentOf(providers[prov].type, reply)).obj.keys) =>
    /\ outcome.kind = "result"
    /\ outcome.result.verdict = "no"
    /\ outcome.result.confidence = 0
    /\ outcome.result.reasoning.kind = "Invalid response format"
    /\ \A t \in 1..10 : ~GatePasses(outcome.result, Num(t))

C9_Witness ==
  /\ Replied
  /\ reply.body = <<LB, "vyes", "rok", RB>>
  /\ reply.pre = <<>>
  /\ reply.post = <<>>
  /\ outcome.kind = "result"
  /\ outcome.result.verdict = "no"
  /\ outcome.result.reasoning = Reasoning("Invalid response format", <<LB, "vyes", "rok", RB>>)

\* a rawResponse that is there and is not the empty string
RawPresent(raw) == raw.tag = "data" \/ (raw.tag = "content" /\ raw.text # <<>>)

\* C10: a result carries no rawResponse unless includeRawResponse was true,
\* and when it was true the rawResponse is there and not empty, for both
\* providers and every shape of reply.
C10_RawResponseToggle ==
  (Replied /\ outcome.kind = "result") =>
    IF mergedOptions.includeRawResponse = Bool(TRUE)
      THEN RawPresent(outcome.result.rawResponse)
      ELSE outcome.result.rawResponse = NoRaw

\* getProvider has run for the evaluation under way
Resolved == request.entry = "service" /\ pc # "resolve"

C12_SetDefaultProvider ==
  [][(pc = "idle" /\ pc' = "idle" /\ lastOp'.op = "setDefaultProvider") =>
       IF lastOp'.name \in DOMAIN providers
         THEN /\ lastOp'.error = ""
              /\ defaultProvider' = lastOp'.name
              /\ providers' = providers
         ELSE /\ lastOp'.error = "Provider is not registered"
              /\ defaultProvider' = defaultProvider
              /\ providers' = providers]_vars

C12_Witness ==
  /\ lastOp = RegistryOp("setDefaultProvider", "mistral", "Provider is not registered")
  /\ defaultProvider = "openai"
  /\ DOMAIN providers = {"openai", "anthropic"}

\* C13: getProvider(name) yields the provider registered under name, and
\* the default one when the name is omitted; it throws exactly when no name
\* is given and no default is set ("No provider specified") or the name to
\* use is not registered ("not registered"), and never falls back to the
\* default for a given name that is not registered.
C13_GetProvider ==
  Resolved =>
    LET given == request.providerName
        noName == given = "" /\ defaultProvider = ""
        unknown == \/ given # "" /\ given \notin DOMAIN providers
                   \/ given = "" /\ defaultProvider # "" /\ defaultProvider \notin DOMAIN providers
    IN /\ noName => /\ prov = ""
                    /\ outcome = Thrown(Error("No provider specified", 0))
       /\ unknown => /\ prov = ""
                     /\ outcome = Thrown(Error("Provider is not registered", 0))
       /\ ~(noName \/ unknown) =>
            /\ prov = IF given # "" THEN given ELSE defaultProvider
            /\ outcome.error.kind \notin {"No provider specified", "Provider is not registered"}

C13_Witness ==
  /\ pc = "done"
  /\ request.providerName = "mistral"
  /\ defaultProvider = "openai"
  /\ "openai" \in DOMAIN providers
  /\ prov = ""
  /\ outcome = Thrown(Error("Provider is not registered", 0))

\* C14: LLMService.evaluateScreenshot hands the evaluation to the provider
\* getProvider(providerName) resolves to, and to that one only, with the
\* options of the caller; when the resolution fails no provider is invoked
\* and the call rejects.
C14_Dispatch ==
  Resolved =>
    IF prov = ""
      THEN /\ outcome.kind = "throw"
           /\ outcome.error.at = 0
           /\ mergedOptions = NoOptions
           /\ calls = 0
           /\ requests = 0
      ELSE /\ prov \in DOMAIN providers
           /\ prov = IF request.providerName # "" THEN request.providerName
                                                   ELSE defaultProvider
           /\ pc # "exists" =>
                mergedOptions = Spread(
                  Options(providers[prov].defaultConfidenceThreshold, Absent,
                          providers[prov].defaultMaxRetries),
                  request.options)
           /\ outcome.kind = "result" =>
                outcome = NormalizeReply(providers[prov].type,
                                         request.options.includeRawResponse, reply, calls)

\* the named provider, not the default one, answered
C14_Witness ==
  /\ pc = "done"
  /\ request.providerName = "anthropic"
  /\ request.options = Options(Num(9), Bool(TRUE), Num(1))
  /\ defaultProvider = "openai"
  /\ providers["openai"].type = "openai"
  /\ prov = "anthropic"
  /\ outcome.kind = "result"
  /\ outcome.result.rawResponse.tag = "data"

\* vibeCheck has merged its options for the check under way
Merged == request.entry = "vibeCheck" /\ vcOptions.provider # ""

\* C15: once configureVibes has set a confidenceThreshold, a provider, a
\* maxRetries or an includeRawResponse, a vibeCheck that does not pass that
\* option itself uses the configured value: the threshold in its gate, the
\* provider, maxRetries and includeRawResponse in what it sends the task.
C15_ConfigureVibes ==
  Merged =>
    /\ (runtimeConfig.confidenceThreshold.t = "number"
          /\ vcOptions.callSite.confidenceThreshold = Absent) =>
         vcOptions.options.confidenceThreshold = runtimeConfig.confidenceThreshold
    /\ (runtimeConfig.provider # "" /\ vcOptions.callSiteProvider = "") =>
         request.providerName = runtimeConfig.provider
    /\ (runtimeConfig.maxRetries.t = "number" /\ vcOptions.callSite.maxRetries = Absent) =>
         request.options.maxRetries = runtimeConfig.maxRetries
    /\ (runtimeConfig.includeRawResponse.t = "boolean"
          /\ vcOptions.callSite.includeRawResponse = Absent) =>
         request.options.includeRawResponse = runtimeConfig.includeRawResponse

\* C16: a vibeCheck that passes yields the element it was chained on, the
\* same one, and a vibeCheck that fails yields nothing: it throws.
C16_YieldsSubject ==
  /\ (pc = "done" /\ request.entry = "vibeCheck") =>
       IF check = "passed"
         THEN subject \in Subjects /\ yielded = subject
         ELSE check = "failed" /\ yielded = NoSubject
  /\ pc # "done" => yielded = NoSubject

C16_Witness ==
  /\ pc = "done"
  /\ check = "passed"
  /\ subject = "button"
  /\ yielded = "button"

\* the service has settled the evaluation
Settled == LoopOver /\ outcome # Pending

\* C17: an evaluation that ends on an error rejects with that very error:
\* the resolution error of getProvider, the artifact error of the provider,
\* or the error the last attempt threw, as thrown; a result comes from a 2xx
\* reply of the attempt that returned it, never from an error.
C17_ErrorPropagation ==
  /\ (Settled /\ outcome.kind = "throw") =>
       \/ /\ prov = ""
          /\ calls = 0
          /\ outcome.error \in {Error("No provider specified", 0),
                                 Error("Provider is not registered", 0)}
       \/ /\ prov # ""
          /\ calls = 0
          /\ ~request.isBrowser /\ ~request.fileExists
          /\ outcome.error = Error("Screenshot does not exist", 0)
       \/ /\ prov # ""
          /\ calls = 0
          /\ RetryLimit(mergedOptions) < 1
          /\ outcome.error = Error("Unknown error", 0)
       \/ /\ calls > 0
          /\ Last(attemptLog) = "throw"
          /\ outcome.error = caught
          /\ caught.at = calls
          /\ caught.kind \in TransportErrors \cup
               {"No API key provided", "Could not read screenshot file", "TypeError"}
  /\ (Settled /\ outcome.kind = "result") =>
       /\ Last(attemptLog) = "result"
       /\ Replied
       /\ outcome = NormalizeReply(providers[prov].type, mergedOptions.includeRawResponse,
                                   reply, calls)

\* the transport error of the second and last attempt reaches the caller
C17_Witness ==
  /\ pc = "done"
  /\ request.entry = "service"
  /\ mergedOptions.maxRetries = Num(2)
  /\ calls = 2
  /\ outcome = Thrown(Error("fetch failed", 2))

C19_AtLeastOneAttempt ==
  (Settled /\ prov # "" /\ request.fileExists) =>
    /\ calls >= 1
    /\ mergedOptions.maxRetries = Num(1) => calls = 1 /\ waits = <<>>

\* C20: the confidenceThreshold of the merged options is a number, in the
\* options the provider hands its attempts and in the options whose
\* threshold the gate of vibeCheck compares the confidence with.
C20_ThresholdDefined ==
  /\ pc \in {"loop", "attempt", "fetch", "catch"} =>
       mergedOptions.confidenceThreshold.t = "number"
  /\ (Merged /\ pc \in {"gate", "done"}) =>
       vcOptions.options.confidenceThreshold.t = "number"

\* a layer defines the option when it has a value for it
Defines(x) == x.t \notin {"absent", "undefined"}
\* the value of the first layer that defines the option
RECURSIVE FirstDefined(_)
FirstDefined(layers) ==
  IF Len(layers) = 1 \/ Defines(Head(layers)) THEN Head(layers)
                                                ELSE FirstDefined(Tail(layers))
\* the provider has merged the options of the request
ProviderMerged == pc \in {"loop", "attempt", "fetch", "catch"}

\* C21: for confidenceThreshold and for maxRetries, the value an evaluation
\* works with is the one of the first layer that defines it, in the order
\* call site, global config, provider default, hard-coded default: the
\* provider of a direct caller merges the call's options over the defaults
\* its config was given and the hard-coded ones, and vibeCheck decides its
\* gate with, and has the provider retry by, the call-site value or else
\* the one of the runtime config; a threshold of 0 counts as defined and an
\* undefined one does not.
C21_Precedence ==
  /\ (ProviderMerged /\ request.entry = "service") =>
       /\ mergedOptions.confidenceThreshold =
            FirstDefined(<<request.options.confidenceThreshold,
                           givenConfigs[prov].defaultConfidenceThreshold,
                           Num(HardConfidenceThreshold)>>)
       /\ mergedOptions.maxRetries =
            FirstDefined(<<request.options.maxRetries,
                           givenConfigs[prov].defaultMaxRetries,
                           Num(HardMaxRetries)>>)
  /\ (ProviderMerged /\ request.entry = "vibeCheck") =>
       /\ vcOptions.options.confidenceThreshold =
            FirstDefined(<<vcOptions.callSite.confidenceThreshold,
                           runtimeConfig.evaluation.confidenceThreshold,
                           givenConfigs[prov].defaultConfidenceThreshold,
                           Num(HardConfidenceThreshold)>>)
       /\ mergedOptions.maxRetries =
            FirstDefined(<<vcOptions.callSite.maxRetries,
                           runtimeConfig.evaluation.maxRetries,
                           givenConfigs[prov].defaultMaxRetries,
                           Num(HardMaxRetries)>>)

\* C22: the options of a vibeCheck call apply to that call only: no step of
\* a vibeCheck, from the merge of its options to its end, changes the
\* runtime config, so a vibeCheck that passes no options and no provider
\* works with the threshold and the provider of the runtime config as the
\* calls before it found it.
C22_PerCallOptions ==
  [][/\ (pc # "idle" \/ pc' # "idle") => runtimeConfig' = runtimeConfig
     /\ (pc = "idle" /\ pc' = "task" /\ vcOptions'.callSite = NoOptions
           /\ vcOptions'.callSiteProvider = "") =>
          /\ vcOptions'.options = runtimeConfig.evaluation
          /\ vcOptions'.provider = runtimeConfig.defaultProvider]_vars

\* a vibeCheck with a threshold, a provider and a retry limit of its own has
\* been decided, and the runtime config is the one it started from
C22_Witness ==
  /\ GateDecided
  /\ vcOptions.callSite = Options(Num(9), Absent, Num(1))
  /\ vcOptions.callSiteProvider = "anthropic"
  /\ vcOptions.options.confidenceThreshold = Num(9)
  /\ runtimeConfig.evaluation = LoadConfig.evaluation
  /\ runtimeConfig.defaultProvider = LoadConfig.defaultProvider

\* the steps of BaseLLMProvider.evaluateScreenshot start here
InProvider == pc \in {"exists", "loop", "attempt", "fetch", "catch"}

\* C23: a provider does not change what it is given: no step of
\* evaluateScreenshot, from the check of the path to the return or the
\* throw, whatever the number of attempts, changes the request (the options
\* object, the path, the specification) or the config the provider was
\* constructed with and keeps.
C23_RequestUnchanged ==
  [][InProvider => /\ request' = request
                   /\ providers' = providers
                   /\ givenConfigs' = givenConfigs]_vars

\* an evaluation of two attempts is over: the provider worked with its
\* default threshold, the caller's options still have none
C23_Witness ==
  /\ Settled
  /\ request.entry = "service"
  /\ calls = 2
  /\ request.options = Options(Absent, Absent, Num(2))
  /\ mergedOptions.confidenceThreshold = Num(HardConfidenceThreshold)
  /\ providers[prov] = CreateLLMProvider(providers[prov].type, givenConfigs[prov])

\* C24: the verdict of every result a provider returns is "yes" or "no",
\* whatever the reply: a verdict member that is missing, empty or another
\* string included.
C24_VerdictEnum ==
  outcome.kind = "result" => outcome.result.verdict \in {"yes", "no"}

\* C25: the requests of one evaluation go one after the other and are
\* bounded: an attempt sends at most one request, so never more requests
\* than attempts and never two in flight; attempt a + 1 is under way only
\* when the attempts 1..a have thrown and the wait after each of them has
\* been sat out; and the requests sent never exceed the retry limit the
\* loop works with.
C25_SerializedRequests ==
  /\ inflight \in {0, 1}
  /\ inflight = 1 => pc = "fetch"
  /\ requests <= calls
  /\ pc \in {"attempt", "fetch"} =>
       /\ Len(waits) = attempt - 1
       /\ \A a \in 1..(attempt - 1) :
            /\ attemptLog[a] = "throw"
            /\ waits[a] = [after |-> a, ms |-> BackoffDelay(a)]
       /\ calls \in {attempt - 1, attempt}
  /\ requests > 0 => requests <= RetryLimit(mergedOptions)

\* the fourth request of an evaluation is in flight, after three failed
\* attempts and three waits
C25_Witness ==
  /\ pc = "fetch"
  /\ inflight = 1
  /\ requests = 4
  /\ attempt = 4
  /\ Len(waits) = 3
  /\ RetryLimit(mergedOptions) = 4

\* C26: the registry is written during set-up only: once a task has gone on
\* to resolve a provider, no task registers a provider or sets the default,
\* the set-up getLLMService makes on first use included.
C26_SetupOnly == ~taskLog.late

\* C27: the throw after the retry loop is never reached: an evaluation that
\* got to the loop ends with the result of an attempt or with the error an
\* attempt threw, rethrown by the catch clause, and never with the
\* "Unknown error" of the statement after the loop.
C27_FallbackUnreachable ==
  (Settled /\ prov # "" /\ mergedOptions # NoOptions) =>
    /\ calls >= 1
    /\ outcome.kind = "result" \/ outcome.error = caught
    /\ outcome.kind = "throw" => outcome.error.kind # "Unknown error"

TaskOver == request.entry = "vibeCheck" /\ vcOptions.provider # "" /\ pc \in {"gate", "done"}

\* C29: the evaluateScreenshotWithLLM task always resolves with a result:
\* for a missing screenshot file, without a provider being resolved or
\* invoked, for a provider that cannot be resolved and for an evaluation
\* whose attempts all threw, the result has verdict "no", confidence 0 and
\* the message of the error as reasoning; a vibeCheck whose evaluation ended
\* this way fails, it passes for no threshold above 0 and yields nothing.
C29_TaskNeverThrows ==
  TaskOver =>
    /\ taskResult # NoResult
    /\ ~request.fileExists =>
         /\ taskResult = Result("no", 0, Reasoning("Screenshot does not exist", <<>>),
                                "Screenshot file not found", NoRaw)
         /\ prov = ""
         /\ outcome = Pending
         /\ calls = 0
    /\ outcome.kind = "throw" =>
         /\ taskResult.verdict = "no"
         /\ taskResult.confidence = 0
         /\ taskResult.reasoning = Reasoning(outcome.error.kind, <<>>)
    /\ outcome.kind = "result" => taskResult = outcome.result
    /\ (~request.fileExists \/ outcome.kind = "throw") =>
         /\ \A t \in 1..10 : ~GatePasses(taskResult, Num(t))
         /\ pc = "done" => check = "failed" /\ yielded = NoSubject

\* both attempts of an evaluation threw: the task resolved with a "no" that
\* carries the message, and the check failed
C29_Witness ==
  /\ TaskOver
  /\ pc = "done"
  /\ check = "failed"
  /\ outcome = Thrown(Error("fetch failed", 2))
  /\ calls = 2
  /\ taskResult.reasoning = Reasoning("fetch failed", <<>>)

\* C30: loadConfig leaves what is shared alone: after any calls of
\* loadConfig, under any settings, defaultConfig with its providers and its
\* evaluation object is as the module defined it, and every config a call
\* returned still holds what it was returned with, whatever later calls did
\* and whatever was written to the config another call returned.
C30_LoadConfigPure ==
  /\ defaultConfig = DefaultConfig
  /\ \A i \in DOMAIN loaded :
       /\ loaded[i].evaluation = defaultConfig.evaluation
       /\ loaded[i].providers = defaultConfig.providers
====
